---- MODULE Spec2Model ----
(***************************************************************************)
(* Foresight: the tier resolver (tier_charge_per_t) and the basket         *)
(* optimiser (optimise_basket) of src/src/optimizer.py, with the basket    *)
(* operations of the trader page (src/src/ui.py).                          *)
(*                                                                         *)
(* Numbers are integers: tonnes, prices and charges are floats in the      *)
(* code, and the model covers the values on which float arithmetic is      *)
(* exact.  Supplier names are integers standing for their rank in          *)
(* Python's string order (sorted(all_suppliers)).  The DataFrame column    *)
(* "Delivery Window" is the field Window, "Line Cost" is LineCost,         *)
(* "Charge £/t" is Charge and "Lot Charge" is LotCharge.                   *)
(***************************************************************************)
EXTENDS Integers, Sequences, FiniteSets

VARIABLES supplier_prices, basket, tiers, tieRank, result, resolved,
          now, timeout_min, basket_created_at, basket_modified_at, rendered

vars ==
    <<supplier_prices, basket, tiers, tieRank, result, resolved,
      now, timeout_min, basket_created_at, basket_modified_at, rendered>>

(***************************************************************************)
(* Bounds of the model.                                                    *)
(***************************************************************************)
NSup == 2
MaxOffers == 3
MaxBasket == 2
MaxTiers == 2
MaxTime == 6

\* The enumeration cap of optimise_basket: range(1, min(k, 15) + 1).
SubsetCap == 15

Suppliers == 1..NSup
Prices == {1, 2}
\* Qty of a basket line: the number input has min_value=0.0, so a line of
\* 0 tonnes can be added.
Qtys == {0, 1, 2}

\* The (Product, Location, Delivery Window) combinations suppliers quote,
\* in the order of load_supplier_prices (ORDER BY supplier, product,
\* location, delivery_window).
OfferKeys == << <<"AN", "X", "W1">>, <<"Urea", "X", "W1">> >>

\* The combinations a basket line may ask for: the quoted ones and two that
\* differ from a quoted one in the location only and in the window only.
Keys ==
    { OfferKeys[n] : n \in DOMAIN OfferKeys }
        \cup { <<"Urea", "Y", "W1">>, <<"Urea", "X", "W2">> }

Min(a, b) == IF a <= b THEN a ELSE b
Max(a, b) == IF a >= b THEN a ELSE b

RECURSIVE SumSeq(_)
SumSeq(s) == IF s = <<>> THEN 0 ELSE Head(s) + SumSeq(Tail(s))

RECURSIVE SumOver(_, _)
SumOver(f, D) ==
    IF D = {} THEN 0
    ELSE LET x == CHOOSE x \in D : TRUE IN f[x] + SumOver(f, D \ {x})

(***************************************************************************)
(* DataFrame.sort_values(col): pandas sorts with kind="quicksort", which   *)
(* is not a stable sort: rows with equal keys come out in an order the     *)
(* numpy build decides.  tieRank is that order, fixed for a run: among     *)
(* equal keys the row at position i of the frame being sorted precedes     *)
(* the row at position j iff tieRank[i] < tieRank[j].  The identity is     *)
(* the stable sort.                                                        *)
(***************************************************************************)
MaxRows == Max(NSup, MaxTiers)

TieRanks ==
    { f \in [1..MaxRows -> 1..MaxRows] :
        \A i, j \in 1..MaxRows : i # j => f[i] # f[j] }

SortsBefore(keys, i, j) ==
    \/ keys[i] < keys[j]
    \/ keys[i] = keys[j] /\ tieRank[i] < tieRank[j]

RECURSIVE ArgSortFrom(_, _)
ArgSortFrom(keys, left) ==
    IF left = {} THEN <<>>
    ELSE LET i == CHOOSE i \in left :
                      \A j \in left \ {i} : SortsBefore(keys, i, j)
         IN <<i>> \o ArgSortFrom(keys, left \ {i})

argsort(keys) == ArgSortFrom(keys, DOMAIN keys)

\* rows.sort_values(col), given the column's values as keys.
sort_values(rows, keys) ==
    LET ix == argsort(keys) IN [n \in 1..Len(rows) |-> rows[ix[n]]]

(***************************************************************************)
(* tier_charge_per_t(tonnes, tiers).  A tier row is                        *)
(* [min_t, max_t, charge_per_t, active]; max_t is <<>> for None / NaN      *)
(* (no upper limit) and <<m>> for the number m.                            *)
(***************************************************************************)
\* A variant of IsActive: any non-zero flag counts (if r["active"]).
IsActiveTruthy(r) == r.active # 0

IsActive(r) == r.active = 1

\* A variant of TierMatches: the upper bound taken as exclusive.
TierMatchesExclusive(t, r) ==
    /\ t >= r.min_t
    /\ (r.max_t = <<>> \/ t < r.max_t[1])

TierMatches(t, r) ==
    /\ t >= r.min_t
    /\ (r.max_t = <<>> \/ t <= r.max_t[1])

RECURSIVE FirstMatch(_, _)
FirstMatch(t, rows) ==
    IF rows = <<>> THEN 0
    ELSE IF TierMatches(t, Head(rows)) THEN Head(rows).charge_per_t
    ELSE FirstMatch(t, Tail(rows))

ActiveSorted(trs) ==
    LET active == SelectSeq(trs, IsActive)
    IN sort_values(active, [n \in 1..Len(active) |-> active[n].min_t])

tier_charge_per_t(tonnes, trs) ==
    IF tonnes <= 0 THEN 0
    ELSE FirstMatch(tonnes, ActiveSorted(trs))

(***************************************************************************)
(* optimise_basket(supplier_prices, basket, tiers).  An offer is           *)
(* [Supplier, Product, Location, Window, Price], a basket line is          *)
(* [Product, Location, Window, Qty].                                       *)
(***************************************************************************)
\* A variant of OfferMatches: the location is not compared.
OfferMatchesAnyLocation(o, line) ==
    /\ o.Product = line.Product
    /\ o.Window = line.Window

OfferMatches(o, line) ==
    /\ o.Product = line.Product
    /\ o.Location = line.Location
    /\ o.Window = line.Window

\* subset = supplier_prices[...][["Supplier", "Price"]], then
\* subset.sort_values("Price", ascending=True).
LineCandidates(sp, line) ==
    LET subset == SelectSeq(sp, LAMBDA o : OfferMatches(o, line))
    IN sort_values(subset, [n \in 1..Len(subset) |-> subset[n].Price])

candidates_by_line(sp, b) == [i \in 1..Len(b) |-> LineCandidates(sp, b[i])]

\* A variant of FirstUnmatched: the last line whose subset is empty (the
\* loop carrying on after an empty subset).
LastUnmatched(sp, b) ==
    LET cbl == candidates_by_line(sp, b)
        empty == { i \in 1..Len(b) : cbl[i] = <<>> }
    IN IF empty = {} THEN 0
       ELSE CHOOSE i \in empty : \A j \in empty : i >= j

\* The first basket line whose subset is empty, 0 when there is none.
FirstUnmatched(sp, b) ==
    LET cbl == candidates_by_line(sp, b)
        empty == { i \in 1..Len(b) : cbl[i] = <<>> }
    IN IF empty = {} THEN 0
       ELSE CHOOSE i \in empty : \A j \in empty : i <= j

all_suppliers(cbl) ==
    UNION { { cbl[i][n].Supplier : n \in 1..Len(cbl[i]) } : i \in DOMAIN cbl }

\* sub2 = subset[subset["Supplier"].isin(S)]
Sub2(cands, S) == SelectSeq(cands, LAMBDA o : o.Supplier \in S)

\* A variant of Feasible: every supplier of S must quote every line.
FeasibleEverySupplier(S, cbl) ==
    \A i \in DOMAIN cbl : \A s \in S :
        \E n \in 1..Len(cbl[i]) : cbl[i][n].Supplier = s

\* Not sub2.empty, for every line.
Feasible(S, cbl) ==
    \A i \in DOMAIN cbl : \E n \in 1..Len(cbl[i]) : cbl[i][n].Supplier \in S

LineCost(qty, price) == qty * price

Allocation(S, b, cbl) ==
    [i \in 1..Len(b) |->
        LET chosen == Sub2(cbl[i], S)[1]
        IN [Product |-> b[i].Product, Location |-> b[i].Location,
            Window |-> b[i].Window, Qty |-> b[i].Qty,
            Supplier |-> chosen.Supplier, Price |-> chosen.Price,
            LineCost |-> LineCost(b[i].Qty, chosen.Price)]]

\* A variant of TonnesBySupplier: the Qty of the supplier's last line
\* instead of the sum (tonnes_by_supplier[s] = qty).
TonnesBySupplierLastLine(S, alloc) ==
    [s \in S |->
        LET won == { i \in 1..Len(alloc) : alloc[i].Supplier = s }
        IN IF won = {} THEN 0
           ELSE alloc[CHOOSE i \in won : \A j \in won : i >= j].Qty]

\* tonnes_by_supplier after the loop over the lines: 0.0 for every s in S,
\* then += qty for the supplier chosen for each line.
TonnesBySupplier(S, alloc) ==
    [s \in S |->
        SumSeq([i \in 1..Len(alloc) |->
                  IF alloc[i].Supplier = s THEN alloc[i].Qty ELSE 0])]

\* A variant of BaseCost: the Line Cost of the last line instead of the sum
\* (base_cost = qty * price).
BaseCostLastLine(alloc) == alloc[Len(alloc)].LineCost

\* base_cost after the loop over the lines: += qty * price for each line.
BaseCost(alloc) == SumSeq([i \in 1..Len(alloc) |-> alloc[i].LineCost])

\* A variant of Charged: every non-zero charge is applied (if cpt != 0).
ChargedNonZero(tonnes, trs) ==
    { s \in DOMAIN tonnes :
        tonnes[s] > 0 /\ tier_charge_per_t(tonnes[s], trs) # 0 }

\* The suppliers the lot-charge loop charges: t > 0 and cpt > 0.
Charged(tonnes, trs) ==
    { s \in DOMAIN tonnes :
        tonnes[s] > 0 /\ tier_charge_per_t(tonnes[s], trs) > 0 }

\* lot_charges: the rows appended in the iteration order of the dict built
\* from the set S, which Python leaves unspecified; the model keeps the
\* rows as a set.
LotCharges(tonnes, trs) ==
    { [Supplier |-> s, Tonnes |-> tonnes[s],
       Charge |-> tier_charge_per_t(tonnes[s], trs),
       LotCharge |-> tonnes[s] * tier_charge_per_t(tonnes[s], trs)] :
      s \in Charged(tonnes, trs) }

LotChargeTotal(tonnes, trs) ==
    SumOver([s \in DOMAIN tonnes |->
                tonnes[s] * tier_charge_per_t(tonnes[s], trs)],
            Charged(tonnes, trs))

\* A variant of TotalCost: the lot charges subtracted.
TotalCostMinus(base_cost, lot_charge_total) == base_cost - lot_charge_total

\* total = base_cost + lot_charge_total
TotalCost(base_cost, lot_charge_total) == base_cost + lot_charge_total

\* One pass of the body of the subset loop for a feasible S.
Evaluate(S, b, cbl, trs) ==
    LET allocation == Allocation(S, b, cbl)
        tonnes == TonnesBySupplier(S, allocation)
        base_cost == BaseCost(allocation)
        lot_charge_total == LotChargeTotal(tonnes, trs)
    IN [total |-> TotalCost(base_cost, lot_charge_total),
        base_cost |-> base_cost,
        lot_charge_total |-> lot_charge_total,
        allocation |-> allocation,
        lot_charges |-> LotCharges(tonnes, trs)]

\* The order of the enumeration: for r in range(1, min(k, 15) + 1), and
\* for each r itertools.combinations(all_suppliers, r) of the sorted list,
\* which is the lexicographic order of the sorted tuples.
SetMin(X) == CHOOSE x \in X : \A y \in X : x <= y

EnumBefore(S, T) ==
    \/ Cardinality(S) < Cardinality(T)
    \/ /\ Cardinality(S) = Cardinality(T)
       /\ S # T
       /\ SetMin((S \ T) \cup (T \ S)) \in S

\* A variant of Enumerated: range(1, min(k, 15)), without the + 1.
EnumeratedShort(U) ==
    { S \in SUBSET U :
        Cardinality(S) >= 1 /\ Cardinality(S) < Min(Cardinality(U), SubsetCap) }

\* A variant of Enumerated: the cap one lower (min(k, 14)).
EnumeratedLowerCap(U) ==
    { S \in SUBSET U :
        /\ Cardinality(S) >= 1
        /\ Cardinality(S) <= Min(Cardinality(U), SubsetCap - 1) }

\* The subsets the loop visits.
Enumerated(U) ==
    { S \in SUBSET U :
        Cardinality(S) >= 1 /\ Cardinality(S) <= Min(Cardinality(U), SubsetCap) }

\* A variant of Better: the goods cost compared instead of the total.
BetterBaseCost(ev, best) == best = <<>> \/ ev.base_cost < best[1].base_cost

\* A variant of Better: a subset of equal total replaces the best so far
\* (total <= best["total"]).
BetterOrEqual(ev, best) == best = <<>> \/ ev.total <= best[1].total

\* "if best is None or total < best["total"]": best is <<>> for None.
Better(ev, best) == best = <<>> \/ ev.total < best[1].total

\* The subset loop over the subsets still to visit; an infeasible subset
\* is skipped (continue), so the loop is run over the feasible ones.
RECURSIVE Scan(_, _, _, _, _)
Scan(todo, best, b, cbl, trs) ==
    IF todo = {} THEN best
    ELSE LET S == CHOOSE S \in todo : \A T \in todo \ {S} : EnumBefore(S, T)
             ev == Evaluate(S, b, cbl, trs)
         IN Scan(todo \ {S}, IF Better(ev, best) THEN <<ev>> ELSE best,
                 b, cbl, trs)

ErrEmptyBasket == <<"Basket is empty.">>
ErrNoPrices(line) ==
    <<"No supplier prices for ", line.Product, " @ ", line.Location, " ",
      line.Window>>
ErrNoFeasible == <<"No feasible supplier set found.">>

optimise_basket(sp, b, trs) ==
    IF b = <<>> THEN [ok |-> FALSE, error |-> ErrEmptyBasket]
    ELSE IF FirstUnmatched(sp, b) # 0
    THEN [ok |-> FALSE, error |-> ErrNoPrices(b[FirstUnmatched(sp, b)])]
    ELSE LET cbl == candidates_by_line(sp, b)
             U == all_suppliers(cbl)
             best == Scan({ S \in Enumerated(U) : Feasible(S, cbl) }, <<>>,
                          b, cbl, trs)
         IN IF best = <<>> THEN [ok |-> FALSE, error |-> ErrNoFeasible]
            ELSE [ok |-> TRUE, total |-> best[1].total,
                  base_cost |-> best[1].base_cost,
                  lot_charge_total |-> best[1].lot_charge_total,
                  allocation |-> best[1].allocation,
                  lot_charges |-> best[1].lot_charges]

(***************************************************************************)
(* The inputs.  A price table is what load_supplier_prices returns: rows   *)
(* unique in (Supplier, Product, Location, Delivery Window), ordered by    *)
(* supplier, product, location, delivery_window.                           *)
(***************************************************************************)
Slots == Suppliers \X (1..Len(OfferKeys))

SlotSeq ==
    [n \in 1..(NSup * Len(OfferKeys)) |->
        <<((n - 1) \div Len(OfferKeys)) + 1, ((n - 1) % Len(OfferKeys)) + 1>>]

Offer(slot, price) ==
    [Supplier |-> slot[1], Product |-> OfferKeys[slot[2]][1],
     Location |-> OfferKeys[slot[2]][2], Window |-> OfferKeys[slot[2]][3],
     Price |-> price]

TableOf(Q, pr) ==
    LET rows == SelectSeq(SlotSeq, LAMBDA q : q \in Q)
    IN [n \in 1..Len(rows) |-> Offer(rows[n], pr[rows[n]])]

PriceTables ==
    UNION { { TableOf(Q, pr) : pr \in [Q -> Prices] } :
            Q \in { Q \in SUBSET Slots : Cardinality(Q) <= MaxOffers } }

Lines ==
    { [Product |-> k[1], Location |-> k[2], Window |-> k[3], Qty |-> q] :
      k \in Keys, q \in Qtys }

SeqsUpTo(S, n) == UNION { [1..m -> S] : m \in 0..n }

TierRow(mn, mx, c, a) ==
    [min_t |-> mn, max_t |-> mx, charge_per_t |-> c, active |-> a]

\* The tier tables of the optimiser's runs: none; one row charging (1) or
\* rebating (-1) lots of up to 1t, every lot, or lots from 2t; and the
\* two-row tables "below 2t charged, from 2t free" and "below 2t charged,
\* from 2t rebated".
OptTierTables ==
    { <<>>,
      <<TierRow(0, <<1>>, 1, 1), TierRow(2, <<>>, 0, 1)>>,
      <<TierRow(0, <<1>>, 1, 1), TierRow(2, <<>>, -1, 1)>> }
        \cup { <<TierRow(w[1], w[2], c, 1)>> :
                 w \in { <<0, <<1>> >>, <<0, <<>> >>, <<2, <<>> >> },
                 c \in {-1, 1} }

NoResult == <<>>

(***************************************************************************)
(* The trader page's session (ui.py page_trader).  now is time.time() in   *)
(* ticks of TickSeconds seconds; timeout_min is the setting                *)
(* basket_timeout_minutes; basket_created_at is                            *)
(* st.session_state.basket_created_at.  Every run of the page first        *)
(* creates the basket if the session has none, then checks its expiry,     *)
(* then acts on the button pressed.  rendered[1] records the last run:     *)
(* the time it ran at, age_sec as the page computed it, the timeout it     *)
(* read and whether it took the expiry branch ("Basket expired and has     *)
(* been cleared.").  basket_modified_at and rendered[1].idle_sec are       *)
(* history values, which the page does not keep: the time the basket was   *)
(* last created, emptied or added to, and the seconds from then to the     *)
(* run.  The page is modelled with a snapshot published.                   *)
(***************************************************************************)
TickSeconds == 30
DefaultTimeoutMinutes == 20
Timeouts == {1, 2}

\* A variant of Expired: age_sec >= timeout_min * 60.
ExpiredAtTimeout ==
    (now - basket_created_at) * TickSeconds >= timeout_min * 60

\* age_sec = time.time() - basket_created_at; age_sec > timeout_min * 60
Expired == (now - basket_created_at) * TickSeconds > timeout_min * 60

BasketAfterExpiry == IF Expired THEN <<>> ELSE basket
CreatedAfterExpiry == IF Expired THEN now ELSE basket_created_at
ModifiedAfterExpiry == IF Expired THEN now ELSE basket_modified_at

RenderRecord ==
    [at |-> now,
     age_sec |-> (now - basket_created_at) * TickSeconds,
     idle_sec |-> (now - basket_modified_at) * TickSeconds,
     timeout_min |-> timeout_min,
     expired |-> Expired]

\* The first run of the page in a session, with the timeout setting m: the
\* basket is created empty and stamped, and is not expired.
SessionStart(m) ==
    /\ now = 0
    /\ timeout_min = m
    /\ basket_created_at = 0
    /\ basket_modified_at = 0
    /\ rendered = <<[at |-> 0, age_sec |-> 0, idle_sec |-> 0,
                     timeout_min |-> m, expired |-> FALSE]>>

\* A run of the page with "Add to basket" pressed: the expiry check, then
\* the line appended; basket_created_at is not touched by the append.
Add(line) ==
    /\ basket' = Append(BasketAfterExpiry, line)
    /\ basket_created_at' = CreatedAfterExpiry
    /\ basket_modified_at' = now
    /\ rendered' = <<RenderRecord>>
    /\ result' = NoResult
    /\ UNCHANGED <<supplier_prices, tiers, tieRank, resolved, now, timeout_min>>

Init ==
    /\ supplier_prices \in PriceTables
    /\ tiers \in OptTierTables
    /\ tieRank \in TieRanks
    /\ basket = <<>>
    /\ result = NoResult
    /\ resolved = <<>>
    /\ SessionStart(DefaultTimeoutMinutes)

\* ui.py page_trader: the "Add to basket" button.
AddToBasket(line) ==
    /\ Len(BasketAfterExpiry) < MaxBasket
    /\ Add(line)

\* ui.py page_trader: the "Clear basket" button, shown for a non-empty basket.
ClearBasket ==
    /\ BasketAfterExpiry # <<>>
    /\ basket' = <<>>
    /\ basket_created_at' = now
    /\ basket_modified_at' = now
    /\ rendered' = <<RenderRecord>>
    /\ result' = NoResult
    /\ UNCHANGED <<supplier_prices, tiers, tieRank, resolved, now, timeout_min>>

\* A call optimise_basket(supplier_prices, basket, tiers).
Optimise ==
    /\ result' = <<optimise_basket(supplier_prices, basket, tiers)>>
    /\ UNCHANGED <<supplier_prices, basket, tiers, tieRank, resolved,
                   now, timeout_min, basket_created_at, basket_modified_at,
                   rendered>>

Next ==
    \/ \E line \in Lines : AddToBasket(line)
    \/ ClearBasket
    \/ Optimise

Spec == Init /\ [][Next]_vars

(***************************************************************************)
(* The tier resolver on its own: tier tables of up to MaxTiers rows, with  *)
(* overlapping, empty ([2, 1]) and inactive rows, and calls                *)
(* tier_charge_per_t(tonnes, tiers).                                       *)
(***************************************************************************)
TierRows ==
    { TierRow(mn, mx, c, a) :
        mn \in {0, 1, 2}, mx \in {<<>>, <<1>>, <<2>>}, c \in {1, 2},
        a \in {0, 1, 2} }

TonnesInputs == -1..3

InitTiers ==
    /\ tiers \in SeqsUpTo(TierRows, MaxTiers)
    /\ tieRank \in TieRanks
    /\ supplier_prices = <<>>
    /\ basket = <<>>
    /\ result = NoResult
    /\ resolved = <<>>
    /\ SessionStart(DefaultTimeoutMinutes)

\* A call tier_charge_per_t(t, tiers).
Resolve(t) ==
    /\ resolved' = <<[tonnes |-> t, charge |-> tier_charge_per_t(t, tiers)]>>
    /\ UNCHANGED <<supplier_prices, basket, tiers, tieRank, result,
                   now, timeout_min, basket_created_at, basket_modified_at,
                   rendered>>

NextTiers == \E t \in TonnesInputs : Resolve(t)

SpecTiers == InitTiers /\ [][NextTiers]_vars

(***************************************************************************)
(* The optimiser at the enumeration cap: SubsetCap + 1 suppliers, supplier *)
(* i the only one quoting product i (products are numbered here), and      *)
(* optionally the last supplier quoting product 1 as well; the basket      *)
(* asks for products 1, 2, ... in turn, 1t each.                           *)
(***************************************************************************)
WideSuppliers == 1..(SubsetCap + 1)

WideOffer(s, prod, price) ==
    [Supplier |-> s, Product |-> prod, Location |-> "X", Window |-> "W1",
     Price |-> price]

\* In the order of load_supplier_prices: by supplier, then product.
WideTable(extra) ==
    [n \in 1..(SubsetCap + 1) |-> WideOffer(n, n, 1)]
        \o (IF extra = 0 THEN <<>>
            ELSE <<WideOffer(SubsetCap + 1, 1, extra)>>)

WideLine(prod) ==
    [Product |-> prod, Location |-> "X", Window |-> "W1", Qty |-> 1]

\* No tiers, a charge on lots of up to 1t, a charge on lots from 2t.
WideTierTables ==
    { <<>>, <<TierRow(0, <<1>>, 1, 1)>>, <<TierRow(2, <<>>, 1, 1)>> }

InitWide ==
    /\ supplier_prices \in { WideTable(extra) : extra \in {0, 1, 2} }
    /\ tiers \in WideTierTables
    /\ tieRank \in TieRanks
    /\ basket = <<>>
    /\ result = NoResult
    /\ resolved = <<>>
    /\ SessionStart(DefaultTimeoutMinutes)

\* ui.py page_trader: the "Add to basket" button, for the next product.
AddWideLine ==
    /\ Len(BasketAfterExpiry) <= SubsetCap
    /\ Add(WideLine(Len(BasketAfterExpiry) + 1))

NextWide ==
    \/ AddWideLine
    \/ ClearBasket
    \/ Optimise

SpecWide == InitWide /\ [][NextWide]_vars

(***************************************************************************)
(* The optimiser on small lots and full loads: the tier table charging 15  *)
(* per tonne below 24t and nothing from 24t (its rows in either order, or  *)
(* the charged row alone), and basket lines of 10, 15, 20 and 24 tonnes    *)
(* for the quoted combinations.                                            *)
(***************************************************************************)
LotQtys == {10, 15, 20, 24}

LotLines ==
    { [Product |-> OfferKeys[n][1], Location |-> OfferKeys[n][2],
       Window |-> OfferKeys[n][3], Qty |-> q] :
      n \in DOMAIN OfferKeys, q \in LotQtys }

Below24 == TierRow(0, <<23>>, 15, 1)
From24 == TierRow(24, <<>>, 0, 1)

LotTierTables == { <<Below24, From24>>, <<From24, Below24>>, <<Below24>> }

InitLots ==
    /\ supplier_prices \in PriceTables
    /\ tiers \in LotTierTables
    /\ tieRank \in TieRanks
    /\ basket = <<>>
    /\ result = NoResult
    /\ resolved = <<>>
    /\ SessionStart(DefaultTimeoutMinutes)

NextLots ==
    \/ \E line \in LotLines : AddToBasket(line)
    \/ ClearBasket
    \/ Optimise

SpecLots == InitLots /\ [][NextLots]_vars

(***************************************************************************)
(* The optimiser on baskets of up to MaxBasket + 1 lines for the quoted    *)
(* combinations, so that a basket has reorderings other than a swap.       *)
(***************************************************************************)
OrderLines ==
    { [Product |-> OfferKeys[n][1], Location |-> OfferKeys[n][2],
       Window |-> OfferKeys[n][3], Qty |-> q] :
      n \in DOMAIN OfferKeys, q \in {1, 2} }

\* ui.py page_trader: the "Add to basket" button.
AddOrderLine(line) ==
    /\ Len(BasketAfterExpiry) <= MaxBasket
    /\ Add(line)

NextOrder ==
    \/ \E line \in OrderLines : AddOrderLine(line)
    \/ ClearBasket
    \/ Optimise

SpecOrder == Init /\ [][NextOrder]_vars

(***************************************************************************)
(* The trader page over time: the clock advances up to MaxTime ticks, the  *)
(* admin changes basket_timeout_minutes, and the page runs with no button, *)
(* with "Add to basket" or with "Clear basket" pressed.                    *)
(***************************************************************************)
ExpiryLines ==
    { [Product |-> "Urea", Location |-> "X", Window |-> "W1", Qty |-> q] :
      q \in {1, 2} }

InitExpiry ==
    /\ supplier_prices = <<Offer(<<1, 2>>, 1)>>
    /\ tiers = <<>>
    /\ tieRank = [i \in 1..MaxRows |-> i]
    /\ basket = <<>>
    /\ result = NoResult
    /\ resolved = <<>>
    /\ \E m \in Timeouts : SessionStart(m)

\* time.time() moves on.
Tick ==
    /\ now < MaxTime
    /\ now' = now + 1
    /\ UNCHANGED <<supplier_prices, basket, tiers, tieRank, result, resolved,
                   timeout_min, basket_created_at, basket_modified_at,
                   rendered>>

\* ui.py page_admin: set_setting("basket_timeout_minutes", str(timeout)).
SetTimeout(m) ==
    /\ timeout_min' = m
    /\ UNCHANGED <<supplier_prices, basket, tiers, tieRank, result, resolved,
                   now, basket_created_at, basket_modified_at, rendered>>

\* A run of the page with no button pressed: the expiry check alone.
Render ==
    /\ basket' = BasketAfterExpiry
    /\ basket_created_at' = CreatedAfterExpiry
    /\ basket_modified_at' = ModifiedAfterExpiry
    /\ rendered' = <<RenderRecord>>
    /\ result' = NoResult
    /\ UNCHANGED <<supplier_prices, tiers, tieRank, resolved, now, timeout_min>>

NextExpiry ==
    \/ Tick
    \/ \E m \in Timeouts : SetTimeout(m)
    \/ Render
    \/ \E line \in ExpiryLines : AddToBasket(line)
    \/ ClearBasket

SpecExpiry == InitExpiry /\ [][NextExpiry]_vars

(***************************************************************************)
(* Properties of optimise_basket.  They read the call's inputs             *)
(* (supplier_prices, basket, tiers) and its return value (result[1]),      *)
(* and restate what the claim says from the inputs alone.                  *)
(***************************************************************************)
Returned == result # NoResult
Succeeded == Returned /\ result[1].ok

\* The indices of the offers quoting exactly line's product, location and
\* delivery window.
Quoting(line) ==
    { n \in DOMAIN supplier_prices :
        /\ supplier_prices[n].Product = line.Product
        /\ supplier_prices[n].Location = line.Location
        /\ supplier_prices[n].Window = line.Window }

EveryLineQuoted == \A i \in DOMAIN basket : Quoting(basket[i]) # {}

\* The supplier universe: the suppliers quoting some basket line.
Universe ==
    { supplier_prices[n].Supplier :
        n \in UNION { Quoting(basket[i]) : i \in DOMAIN basket } }

\* C3: a successful result has one allocation entry per basket line, in
\* basket order; each entry's Line Cost is Qty x Price for the Price of an
\* offer of the entry's Supplier for exactly that line's product, location
\* and window; base_cost is the sum of the Line Costs and
\* total = base_cost + lot_charge_total.
C3_AllocationInvariant ==
    Succeeded =>
        LET r == result[1] IN
        /\ Len(r.allocation) = Len(basket)
        /\ \A i \in DOMAIN basket :
              /\ r.allocation[i].Product = basket[i].Product
              /\ r.allocation[i].Location = basket[i].Location
              /\ r.allocation[i].Window = basket[i].Window
              /\ r.allocation[i].Qty = basket[i].Qty
              /\ \E n \in Quoting(basket[i]) :
                    /\ supplier_prices[n].Supplier = r.allocation[i].Supplier
                    /\ supplier_prices[n].Price = r.allocation[i].Price
                    /\ r.allocation[i].LineCost
                          = basket[i].Qty * supplier_prices[n].Price
        /\ r.base_cost
              = SumSeq([i \in DOMAIN basket |-> r.allocation[i].LineCost])
        /\ r.total = r.base_cost + r.lot_charge_total

\* A two-line basket won by two different suppliers, with a lot charge.
C3_Witness ==
    /\ Succeeded
    /\ Len(basket) = 2
    /\ result[1].allocation[1].Supplier # result[1].allocation[2].Supplier
    /\ result[1].allocation[1].Qty # result[1].allocation[2].Qty
    /\ result[1].lot_charge_total > 0

\* C10: the call fails, returning only an error, on an empty basket (the
\* empty-basket error) and when some line has no exactly matching offer:
\* the error then names the product, location and window of the first
\* such line in basket order.
C10_EarlyFailure ==
    Returned =>
        /\ basket = <<>> =>
              result[1] = [ok |-> FALSE, error |-> <<"Basket is empty.">>]
        /\ ~EveryLineQuoted =>
              \E i \in DOMAIN basket :
                /\ Quoting(basket[i]) = {}
                /\ \A j \in 1..(i - 1) : Quoting(basket[j]) # {}
                /\ result[1] =
                      [ok |-> FALSE,
                       error |-> <<"No supplier prices for ",
                                   basket[i].Product, " @ ",
                                   basket[i].Location, " ",
                                   basket[i].Window>>]

\* Two different unquoted lines: the error names the first one.
C10_Witness ==
    /\ Returned
    /\ Len(basket) = 2
    /\ supplier_prices # <<>>
    /\ Quoting(basket[1]) = {}
    /\ Quoting(basket[2]) = {}
    /\ basket[1].Window # basket[2].Window
    /\ ~result[1].ok
    /\ result[1].error[6] = basket[1].Window

\* The tonnes supplier s wins in the returned allocation.
Won(s) ==
    SumSeq([i \in DOMAIN basket |->
              IF result[1].allocation[i].Supplier = s
              THEN basket[i].Qty ELSE 0])

Winners == { s \in Suppliers : Succeeded /\ Won(s) > 0 }

\* C5 as claimed: lot_charge_total is the sum over the suppliers that won
\* tonnes > 0 of tonnes won x tier_charge_per_t(tonnes won), also when
\* the resolved charge is zero or negative.
C5_LotChargeTotalAllCharges ==
    Succeeded =>
        result[1].lot_charge_total
          = SumOver([s \in Suppliers |->
                        Won(s) * tier_charge_per_t(Won(s), tiers)],
                    Winners)

\* C5, amended: lot_charge_total is the sum of tonnes won x resolved
\* charge over the suppliers that won tonnes > 0 and whose resolved charge
\* is positive; a zero or negative resolved charge adds nothing.
C5_LotChargeTotalPositiveCharges ==
    Succeeded =>
        result[1].lot_charge_total
          = SumOver([s \in Suppliers |->
                        Won(s) * tier_charge_per_t(Won(s), tiers)],
                    { s \in Winners :
                        tier_charge_per_t(Won(s), tiers) > 0 })

\* One winner is charged and another winner's resolved charge is negative.
C5_Witness ==
    /\ Succeeded
    /\ \E s, t \in Winners :
          /\ tier_charge_per_t(Won(s), tiers) > 0
          /\ tier_charge_per_t(Won(t), tiers) < 0
    /\ result[1].lot_charge_total > 0

\* The subsets of the universe of at most 15 suppliers covering every line.
Covering ==
    { S \in SUBSET Universe :
        /\ S # {}
        /\ Cardinality(S) <= SubsetCap
        /\ \A i \in DOMAIN basket :
              \E n \in Quoting(basket[i]) : supplier_prices[n].Supplier \in S }

\* The offer line i gets under S: the first offer of a supplier in S in
\* the line's candidates sorted by price.
InducedOffer(S, i) ==
    LET c == LineCandidates(supplier_prices, basket[i])
        n == CHOOSE n \in 1..Len(c) :
                /\ c[n].Supplier \in S
                /\ \A m \in 1..(n - 1) : c[m].Supplier \notin S
    IN c[n]

InducedTonnes(S, s) ==
    SumSeq([i \in DOMAIN basket |->
              IF InducedOffer(S, i).Supplier = s THEN basket[i].Qty ELSE 0])

InducedGoods(S) ==
    SumSeq([i \in DOMAIN basket |-> basket[i].Qty * InducedOffer(S, i).Price])

\* The tier charge on each supplier's summed tonnes.
InducedCharges(S) ==
    SumOver([s \in S |->
                InducedTonnes(S, s)
                  * tier_charge_per_t(InducedTonnes(S, s), tiers)],
            { s \in S : InducedTonnes(S, s) > 0 })

\* The same, counting only the suppliers whose resolved charge is positive.
InducedPositiveCharges(S) ==
    SumOver([s \in S |->
                InducedTonnes(S, s)
                  * tier_charge_per_t(InducedTonnes(S, s), tiers)],
            { s \in S :
                /\ InducedTonnes(S, s) > 0
                /\ tier_charge_per_t(InducedTonnes(S, s), tiers) > 0 })

\* C2 as claimed: a successful total is the minimum, over the covering
\* subsets S of at most 15 suppliers, of the goods cost of the allocation
\* induced by S plus the tier charge on each supplier's summed tonnes.
C2_MinOverSubsets ==
    Succeeded =>
        /\ \E S \in Covering :
              result[1].total = InducedGoods(S) + InducedCharges(S)
        /\ \A S \in Covering :
              result[1].total <= InducedGoods(S) + InducedCharges(S)

\* C2, amended: the same with the tier charge counted only for the
\* suppliers whose resolved charge is positive.
C2_MinOverSubsetsPositiveCharges ==
    Succeeded =>
        /\ \E S \in Covering :
              result[1].total = InducedGoods(S) + InducedPositiveCharges(S)
        /\ \A S \in Covering :
              result[1].total <= InducedGoods(S) + InducedPositiveCharges(S)

\* Two subsets cover the basket, and giving both lines to one supplier
\* beats the per-line cheapest offers of the full universe.
C2_Witness ==
    /\ Succeeded
    /\ Len(basket) = 2
    /\ Cardinality(Covering) = 2
    /\ Universe \in Covering
    /\ result[1].total
          < InducedGoods(Universe) + InducedPositiveCharges(Universe)

\* The assignments giving each basket line one offer quoting it.
Assignments ==
    { a \in [DOMAIN basket -> DOMAIN supplier_prices] :
        \A i \in DOMAIN basket : a[i] \in Quoting(basket[i]) }

AssignedTonnes(a, s) ==
    SumSeq([i \in DOMAIN basket |->
              IF supplier_prices[a[i]].Supplier = s THEN basket[i].Qty ELSE 0])

\* sum of Qty x Price + sum over suppliers of tonnes won x
\* tier_charge_per_t(tonnes won)
AssignmentCost(a) ==
    SumSeq([i \in DOMAIN basket |-> basket[i].Qty * supplier_prices[a[i]].Price])
      + SumOver([s \in Suppliers |->
                    AssignedTonnes(a, s)
                      * tier_charge_per_t(AssignedTonnes(a, s), tiers)],
                { s \in Suppliers : AssignedTonnes(a, s) > 0 })

NoRebate == \A n \in DOMAIN tiers : tiers[n].charge_per_t >= 0

\* C1: when every line is quoted, the returned total is the minimum of the
\* cost over ALL assignments of one quoting supplier to each line.  Stated
\* for the tier tables without a negative charge (on the others the total
\* differs also by the rebates the code does not apply, see C5).
C1_MinOverAllAssignments ==
    (Succeeded /\ NoRebate) =>
        /\ \E a \in Assignments : result[1].total = AssignmentCost(a)
        /\ \A a \in Assignments : result[1].total <= AssignmentCost(a)

\* tiers with the charge_per_t of row n raised by d.
RaiseCharge(trs, n, d) ==
    [trs EXCEPT ![n].charge_per_t = @ + d]

\* C6: raising the charge_per_t of one tier row, everything else fixed,
\* never decreases the total of a successful call.
C6_Monotonicity ==
    Succeeded =>
        \A n \in DOMAIN tiers, d \in {1, 2} :
            LET raised ==
                    optimise_basket(supplier_prices, basket,
                                    RaiseCharge(tiers, n, d))
            IN raised.ok /\ raised.total >= result[1].total

\* Raising a charge makes the optimiser switch suppliers and the total
\* rise by less than the raised charge would cost.
C6_Witness ==
    /\ Succeeded
    /\ result[1].lot_charge_total > 0
    /\ \E n \in DOMAIN tiers :
          LET raised ==
                  optimise_basket(supplier_prices, basket,
                                  RaiseCharge(tiers, n, 2))
          IN /\ raised.total > result[1].total
             /\ raised.lot_charge_total = 0
             /\ raised.allocation # result[1].allocation

\* C4 as claimed: for a non-empty basket in which every line has a
\* candidate, the call succeeds, whatever the size of the supplier
\* universe and of the basket.
C4_AlwaysSucceeds ==
    (Returned /\ basket # <<>> /\ EveryLineQuoted) => result[1].ok

\* C4, amended: it succeeds when the universe has at most 15 suppliers or
\* the basket has at most 15 lines.
C4_SucceedsWithinCap ==
    (/\ Returned /\ basket # <<>> /\ EveryLineQuoted
     /\ (Cardinality(Universe) <= SubsetCap \/ Len(basket) <= SubsetCap))
        => result[1].ok

\* A universe of 16 suppliers and a basket of 15 lines: the call succeeds.
C4_Witness ==
    /\ Succeeded
    /\ Cardinality(Universe) = SubsetCap + 1
    /\ Len(basket) = SubsetCap

\* C11: a supplier's tier charge is resolved on the SUM of the Qty of the
\* lines it wins: every lot_charges row carries the supplier's summed
\* tonnes and the charge resolved on that sum; and with the table "15 per
\* tonne below 24t, 0 from 24t" a basket of two lines won by the same
\* supplier, each below 24t and summing to 30t, gets lot_charge_total = 0.
C11_NonSeparability ==
    Succeeded =>
        /\ \A row \in result[1].lot_charges :
              /\ row.Tonnes = Won(row.Supplier)
              /\ row.Charge = tier_charge_per_t(Won(row.Supplier), tiers)
              /\ row.LotCharge = row.Tonnes * row.Charge
        /\ (/\ tiers \in { <<Below24, From24>>, <<From24, Below24>> }
            /\ Len(basket) = 2
            /\ result[1].allocation[1].Supplier
                  = result[1].allocation[2].Supplier
            /\ basket[1].Qty < 24 /\ basket[2].Qty < 24
            /\ basket[1].Qty + basket[2].Qty = 30)
              => result[1].lot_charge_total = 0

\* Lines of 10t and 20t for two different products, both won by the same
\* supplier although the other supplier quotes one of them: no lot charge.
C11_Witness ==
    /\ Succeeded
    /\ tiers = <<Below24, From24>>
    /\ Len(basket) = 2
    /\ basket[1].Product # basket[2].Product
    /\ basket[1].Qty = 10 /\ basket[2].Qty = 20
    /\ Cardinality(Universe) = 2
    /\ result[1].allocation[1].Supplier = result[1].allocation[2].Supplier
    /\ result[1].lot_charge_total = 0
    /\ result[1].lot_charges = {}

\* The reorderings of a list of n entries, and the basket reordered by p.
Perms(n) ==
    { p \in [1..n -> 1..n] : \A i, j \in 1..n : i # j => p[i] # p[j] }

Permuted(b, p) == [i \in 1..Len(b) |-> b[p[i]]]

\* C12: for every reordering of the basket lines, with the same price table
\* and tiers, the call succeeds with the same total, base_cost and
\* lot_charge_total (and lot charges), and every line gets the same
\* supplier at the same price: the allocation list is the original one
\* reordered the same way.
C12_BasketOrderIndependence ==
    Succeeded =>
        \A p \in Perms(Len(basket)) :
            LET other ==
                    optimise_basket(supplier_prices, Permuted(basket, p),
                                    tiers)
            IN /\ other.ok
               /\ other.total = result[1].total
               /\ other.base_cost = result[1].base_cost
               /\ other.lot_charge_total = result[1].lot_charge_total
               /\ other.lot_charges = result[1].lot_charges
               /\ other.allocation = Permuted(result[1].allocation, p)

\* Three lines of different line costs, won by two suppliers, with a lot
\* charge and a rotation of the basket that moves every line.
C12_Witness ==
    /\ Succeeded
    /\ Len(basket) = 3
    /\ basket[1] # basket[2] /\ basket[2] # basket[3] /\ basket[1] # basket[3]
    /\ \E i, j \in 1..3 :
          result[1].allocation[i].Supplier # result[1].allocation[j].Supplier
    /\ result[1].allocation[1].LineCost # result[1].allocation[3].LineCost
    /\ result[1].lot_charge_total > 0
    /\ LET p == [i \in 1..3 |-> (i % 3) + 1]
       IN optimise_basket(supplier_prices, Permuted(basket, p), tiers)
             .allocation = Permuted(result[1].allocation, p)

\* The total the subset loop computes for a covering subset S.
CostOf(S) == InducedGoods(S) + InducedPositiveCharges(S)

\* The covering subsets of at most 15 suppliers attaining the minimum.
Minimal ==
    LET cost == [S \in Covering |-> CostOf(S)]
        least == CHOOSE c \in { cost[S] : S \in Covering } :
                    \A T \in Covering : c <= cost[T]
    IN { S \in Covering : cost[S] = least }

\* The members of a set of suppliers in ascending order.
RECURSIVE SortedTuple(_)
SortedTuple(S) ==
    IF S = {} THEN <<>>
    ELSE LET x == CHOOSE x \in S : \A y \in S : x <= y
         IN <<x>> \o SortedTuple(S \ {x})

\* Lexicographic order of two tuples of the same length.
LexLess(a, b) ==
    \E n \in 1..Len(a) :
        /\ a[n] < b[n]
        /\ \A m \in 1..(n - 1) : a[m] = b[m]

\* Ascending size, then lexicographic order of the sorted tuples.
Precedes(S, T) ==
    \/ Cardinality(S) < Cardinality(T)
    \/ /\ Cardinality(S) = Cardinality(T)
       /\ LexLess(SortedTuple(S), SortedTuple(T))

Earliest ==
    LET M == Minimal
    IN CHOOSE S \in M : \A T \in M \ {S} : Precedes(S, T)

\* C14: when several covering subsets attain the minimum total, the
\* result (allocation, lot charges, base_cost) is the one induced by the
\* earliest of them in the enumeration order: ascending size, then
\* lexicographic order of the sorted supplier universe.
C14_EarliestSubsetWins ==
    Succeeded =>
        \E E \in {Earliest} :
            /\ \A i \in DOMAIN basket :
                  /\ result[1].allocation[i].Supplier
                        = InducedOffer(E, i).Supplier
                  /\ result[1].allocation[i].Price = InducedOffer(E, i).Price
            /\ result[1].base_cost = InducedGoods(E)
            /\ result[1].lot_charge_total = InducedPositiveCharges(E)
            /\ { row.Supplier : row \in result[1].lot_charges }
                  = { s \in E :
                        /\ InducedTonnes(E, s) > 0
                        /\ tier_charge_per_t(InducedTonnes(E, s), tiers) > 0 }

\* Every covering subset attains the minimum, a one-supplier subset and
\* the two-supplier universe among them, and they induce different
\* allocations of different base_cost: the result is the earliest one's.
C14_Witness ==
    /\ Succeeded
    /\ Cardinality(Universe) = 2
    /\ \E E \in {Earliest}, M \in {Minimal} :
          /\ M = Covering
          /\ Cardinality(M) >= 2
          /\ \E S \in M :
                /\ S # E
                /\ \E i \in DOMAIN basket :
                      InducedOffer(S, i).Supplier # InducedOffer(E, i).Supplier
                /\ InducedGoods(S) # InducedGoods(E)
          /\ result[1].base_cost = InducedGoods(E)

\* The offer the claimed rule gives line i under S: of minimum Price among
\* the offers quoting the line whose supplier is in S, and the first of
\* those in the order of the rows of the price table.
ClaimedOffer(S, i) ==
    LET Q == { n \in Quoting(basket[i]) : supplier_prices[n].Supplier \in S }
        cheapest == { n \in Q : \A m \in Q :
                        supplier_prices[n].Price <= supplier_prices[m].Price }
    IN supplier_prices[CHOOSE n \in cheapest : \A m \in cheapest : n <= m]

ClaimedTonnes(S, s) ==
    SumSeq([i \in DOMAIN basket |->
              IF ClaimedOffer(S, i).Supplier = s THEN basket[i].Qty ELSE 0])

\* The total of the allocation the claimed rule induces under S, with the
\* lot charges as the subset loop applies them.
ClaimedCost(S) ==
    SumSeq([i \in DOMAIN basket |-> basket[i].Qty * ClaimedOffer(S, i).Price])
      + SumOver([s \in S |->
                    ClaimedTonnes(S, s)
                      * tier_charge_per_t(ClaimedTonnes(S, s), tiers)],
                { s \in S :
                    /\ ClaimedTonnes(S, s) > 0
                    /\ tier_charge_per_t(ClaimedTonnes(S, s), tiers) > 0 })

NoFeasibleFailure ==
    /\ Returned
    /\ ~result[1].ok
    /\ result[1].error = <<"No feasible supplier set found.">>

\* C16: the failure "No feasible supplier set found." is returned only
\* when every line has a candidate, the supplier universe has more than 15
\* suppliers and no subset of at most 15 suppliers covers every line; with
\* a universe of at most 15 suppliers and a candidate for every line of a
\* non-empty basket the call does not fail.
C16_NoFeasibleOnlyBeyondCap ==
    /\ NoFeasibleFailure =>
          /\ basket # <<>>
          /\ EveryLineQuoted
          /\ Cardinality(Universe) > SubsetCap
          /\ Covering = {}
    /\ (/\ Returned /\ basket # <<>> /\ EveryLineQuoted
        /\ Cardinality(Universe) <= SubsetCap)
          => /\ result[1].ok
             /\ Universe \in Covering

\* The failure is returned: 16 lines, each quoted by another supplier
\* alone.
C16_Witness ==
    /\ NoFeasibleFailure
    /\ Len(basket) = SubsetCap + 1
    /\ Cardinality(Universe) = SubsetCap + 1
    /\ \A i \in DOMAIN basket : Cardinality(Quoting(basket[i])) = 1

\* The non-empty subsets of the universe covering every line, of any size:
\* what an enumeration without the cap would evaluate.
AllCovering ==
    { S \in SUBSET Universe :
        /\ S # {}
        /\ \A i \in DOMAIN basket :
              \E n \in Quoting(basket[i]) : supplier_prices[n].Supplier \in S }

\* The suppliers that win a line under S.
WinnersUnder(S) == { InducedOffer(S, i).Supplier : i \in DOMAIN basket }

\* C17: the allocation induced by any covering subset S is the one induced
\* by the suppliers winning a line under S, which are at most as many as
\* the basket has lines; so for a basket of at most 15 lines, every line
\* quoted, the call succeeds and its total is the minimum of the total
\* over ALL non-empty covering subsets, also of more than 15 suppliers.
C17_CapLosesNothing ==
    (Returned /\ basket # <<>> /\ EveryLineQuoted) =>
        /\ \A S \in AllCovering :
              \E W \in {WinnersUnder(S)} :
                  /\ W \subseteq S
                  /\ Cardinality(W) <= Len(basket)
                  /\ \A i \in DOMAIN basket :
                        InducedOffer(W, i) = InducedOffer(S, i)
                  /\ CostOf(W) = CostOf(S)
        /\ Len(basket) <= SubsetCap =>
              /\ result[1].ok
              /\ \E S \in AllCovering : result[1].total = CostOf(S)
              /\ \A S \in AllCovering : result[1].total <= CostOf(S)

\* 15 lines and a universe of 16 suppliers: the universe itself, which the
\* loop never visits, attains the minimum, and the call returns that total.
C17_Witness ==
    /\ Succeeded
    /\ Len(basket) = SubsetCap
    /\ Cardinality(Universe) = SubsetCap + 1
    /\ Universe \notin Covering
    /\ Cardinality(WinnersUnder(Universe)) = SubsetCap
    /\ result[1].total = CostOf(Universe)
    /\ result[1].lot_charge_total > 0

(***************************************************************************)
(* Properties of the basket's expiry.  They read the record of the last    *)
(* run of the page (rendered[1]) and the session after it.                 *)
(***************************************************************************)
\* C13 as claimed: a run of the page takes the expiry branch exactly when
\* more than basket_timeout_minutes have passed since the basket was last
\* modified; so a basket a line was added to within the timeout is not
\* cleared by expiry.
C13_ExpiryAfterIdle ==
    rendered[1].expired
        <=> rendered[1].idle_sec > rendered[1].timeout_min * 60

\* C13, amended: a run of the page takes the expiry branch exactly when
\* more than basket_timeout_minutes have passed since the basket was
\* created or last emptied (by "Clear basket" or by expiry); adding a line
\* does not restart that timer.  The expiry empties the basket before the
\* run's button acts, so that after such a run the basket holds at most
\* the line added in that run, and restarts the timer at the time of the
\* run.  A basket no older than the timeout is never cleared by expiry,
\* and the expiry never comes earlier than the idle one would.
C13_ExpiryAfterCreation ==
    /\ rendered[1].expired
          <=> rendered[1].age_sec > rendered[1].timeout_min * 60
    /\ rendered[1].expired =>
          /\ basket_created_at = rendered[1].at
          /\ Len(basket) <= 1
    /\ rendered[1].idle_sec > rendered[1].timeout_min * 60
          => rendered[1].expired
    /\ rendered[1].age_sec >= rendered[1].idle_sec

\* A run of the page cleared by expiry a basket to which a line had been
\* added within the timeout.
C13_Witness ==
    /\ rendered[1].expired
    /\ rendered[1].idle_sec > 0
    /\ rendered[1].idle_sec <= rendered[1].timeout_min * 60
    /\ basket = <<>>
    /\ basket_created_at = now

(***************************************************************************)
(* Properties of tier_charge_per_t.  They read the call's inputs           *)
(* (resolved[1].tonnes, tiers) and its return value (resolved[1].charge).  *)
(***************************************************************************)
Resolved == resolved # <<>>

ActiveTiers == { n \in DOMAIN tiers : tiers[n].active = 1 }

\* min_t <= t and (max_t absent or t <= max_t)
InRange(n, t) ==
    /\ tiers[n].min_t <= t
    /\ (tiers[n].max_t = <<>> \/ t <= tiers[n].max_t[1])

\* C8 as claimed: for every active tier T, the call at T.min_t returns T's
\* charge, and the call at T.max_t returns T's charge.
C8_TierBoundary ==
    Resolved =>
        \A n \in ActiveTiers :
            /\ resolved[1].tonnes = tiers[n].min_t
                  => resolved[1].charge = tiers[n].charge_per_t
            /\ (tiers[n].max_t # <<>> /\ resolved[1].tonnes = tiers[n].max_t[1])
                  => resolved[1].charge = tiers[n].charge_per_t

\* C8, amended: at t = T.min_t or t = T.max_t, with t > 0 and t in T's
\* range, the call returns T's charge when every other active tier whose
\* range holds t has a larger min_t than T; so when the lower tier's
\* max_t equals T.min_t, the call at that tonnage returns the LOWER tier's
\* charge (both bounds are inclusive and the first match in ascending
\* min_t wins).
C8_TierBoundaryFirstMatch ==
    Resolved =>
        LET t == resolved[1].tonnes IN
        \A n \in ActiveTiers :
            (/\ t > 0
             /\ InRange(n, t)
             /\ t = tiers[n].min_t \/ tiers[n].max_t = <<t>>
             /\ \A m \in ActiveTiers \ {n} :
                   InRange(m, t) => tiers[m].min_t > tiers[n].min_t)
                => resolved[1].charge = tiers[n].charge_per_t

\* Two active tiers sharing a boundary, [1, 2] and [2, no limit), with
\* different charges, resolved at the shared tonnage 2: the lower tier's
\* charge is returned.
C8_Witness ==
    /\ Resolved
    /\ resolved[1].tonnes = 2
    /\ \E l, u \in ActiveTiers :
          /\ tiers[l].min_t = 1 /\ tiers[l].max_t = <<2>>
          /\ tiers[u].min_t = 2 /\ tiers[u].max_t = <<>>
          /\ tiers[l].charge_per_t # tiers[u].charge_per_t
          /\ resolved[1].charge = tiers[l].charge_per_t

\* The tier table without its rows with active # 1.
ActiveOnly(trs) == SelectSeq(trs, LAMBDA r : r.active = 1)

\* C9: the call returns 0 when tonnes <= 0; otherwise the charge_per_t of
\* an active tier of smallest min_t among the active tiers whose range
\* holds tonnes, and 0 when there is none; the rows with active # 1 do not
\* influence the result, which is a number.
C9_TierSelection ==
    Resolved =>
        LET t == resolved[1].tonnes
            c == resolved[1].charge
            M == { n \in ActiveTiers : InRange(n, t) }
        IN /\ t <= 0 => c = 0
           /\ (t > 0 /\ M = {}) => c = 0
           /\ (t > 0 /\ M # {}) =>
                 \E n \in M :
                   /\ \A m \in M : tiers[n].min_t <= tiers[m].min_t
                   /\ c = tiers[n].charge_per_t
           /\ c = tier_charge_per_t(t, ActiveOnly(tiers))
           /\ c \in Int

\* Two active tiers hold the tonnage, the one of larger min_t comes first
\* in the table, and the charge is the other's; or an inactive row with
\* the range is passed over.
C9_Witness ==
    /\ Resolved
    /\ Len(tiers) = 2
    /\ resolved[1].tonnes = 2
    /\ ActiveTiers = {1, 2}
    /\ InRange(1, 2) /\ InRange(2, 2)
    /\ tiers[1].min_t > tiers[2].min_t
    /\ tiers[1].charge_per_t # tiers[2].charge_per_t
    /\ resolved[1].charge = tiers[2].charge_per_t

====
